---- MODULE Spec2Model ----
(***************************************************************************)
(* Model of e-gov-laws-mcp.py: the MCP tool dispatcher call_tool, the five *)
(* tool handlers, the query whitelist clean_query and the identifier       *)
(* resolver resolve_law_identifier.                                        *)
(*                                                                         *)
(* Python values are modelled as follows.  Scalar argument values (str,    *)
(* int) are strings holding their query-string text ("5" for limit=5).     *)
(* Python None is the token None.  A dict is a function from its keys.     *)
(* A JSON document is [obj |-> dict] or [null |-> TRUE]; a byte string is  *)
(* a sequence over 0..255.                                                 *)
(***************************************************************************)
EXTENDS Integers, Sequences, FiniteSets, TLC

VARIABLES allowed, name, arguments, pc, requests, response, payloads

vars == <<allowed, name, arguments, pc, requests, response, payloads>>

\* ---------------------------------------------------------------- bounds
NInv == 2
MaxBytes == 3

\* ------------------------------------------------------- value modelling
None == "\\None"
EmptyDict == [x \in {} |-> x]
Put(m, k, v) == [x \in DOMAIN m \cup {k} |-> IF x = k THEN v ELSE m[x]]
Get(m, k, dflt) == IF k \in DOMAIN m THEN m[k] ELSE dflt
Update(m, u) == [x \in DOMAIN m \cup DOMAIN u |-> IF x \in DOMAIN u THEN u[x] ELSE m[x]]
\* The None default of an Optional[Dict] parameter, distinct from every dict.
NoneQuery == [x \in {None} |-> None]
Falsy(v) == v = None \/ v = ""

RECURSIVE PartialMaps(_, _)
PartialMaps(Keys, V) ==
  IF Keys = {} THEN {EmptyDict}
  ELSE LET k == CHOOSE x \in Keys : TRUE
           rest == PartialMaps(Keys \ {k}, V)
       IN rest \cup {Put(m, k, v) : m \in rest, v \in V[k]}

\* ------------------------------------------------------------- constants
BASE_URL == "https://elaws.e-gov.go.jp/api/2"

ALLOWED_PARAMS ==
  [list_laws |-> {"law_id", "law_num", "law_num_era", "law_num_type", "law_title",
                  "law_title_kana", "amendment_date_from", "amendment_date_to",
                  "amendment_law_id", "amendment_law_num", "amendment_law_title",
                  "asof", "promulgation_date_from", "promulgation_date_to", "order"},
   search_laws |-> {"law_num", "law_num_era", "law_num_type", "law_title",
                    "law_title_kana", "asof", "promulgation_date_from",
                    "promulgation_date_to", "order"},
   get_law_revisions |-> {"law_title", "law_title_kana", "amendment_date_from",
                          "amendment_date_to", "amendment_law_id", "amendment_law_num",
                          "amendment_law_title", "amendment_promulgate_date_from",
                          "amendment_promulgate_date_to", "remain_in_force",
                          "repeal_date_from", "repeal_date_to"}]

ToolNames == {"list_laws", "search_laws", "get_law", "get_law_revisions", "get_law_file"}

\* ------------------------------------------------ resolve_law_identifier
\* Mutant: law_id is looked up before law_revision_id.
resolve_law_identifier_law_id_first(args, allow_revision_id) ==
  IF "law_id" \in DOMAIN args THEN args["law_id"]
  ELSE IF allow_revision_id /\ "law_revision_id" \in DOMAIN args THEN args["law_revision_id"]
  ELSE IF "law_num" \in DOMAIN args THEN args["law_num"]
  ELSE None

resolve_law_identifier(args, allow_revision_id) ==
  IF allow_revision_id /\ "law_revision_id" \in DOMAIN args THEN args["law_revision_id"]
  ELSE IF "law_id" \in DOMAIN args THEN args["law_id"]
  ELSE IF "law_num" \in DOMAIN args THEN args["law_num"]
  ELSE None

\* ----------------------------------------------------------- clean_query
\* Mutant: the `k in allow` test is missing.
clean_query_unfiltered(nm, query) ==
  LET q == IF query = NoneQuery THEN EmptyDict ELSE query
  IN [k \in {x \in DOMAIN q : q[x] # None} |-> q[k]]

\* ALLOWED_PARAMS.get(name, []) reads the module-level dict, held in `allowed`.
clean_query(nm, query) ==
  LET allow == IF nm \in DOMAIN allowed THEN allowed[nm] ELSE {}
      q == IF query = NoneQuery THEN EmptyDict ELSE query
  IN [k \in {x \in DOMAIN q : x \in allow /\ q[x] # None} |-> q[k]]

\* ------------------------------------------------- outcomes of a coroutine
Return(v) == [ret |-> v]
Raise(msg) == [exc |-> msg]
IsRaise(o) == "exc" \in DOMAIN o
JObj(d) == [obj |-> d]
JNull == [null |-> TRUE]

\* ------------------------------------------------------ the HTTP exchange
\* What the aiohttp session delivers for one GET: a response, a connection
\* failure (aiohttp.ClientError) or the expiry of ClientSession's default
\* total timeout (asyncio.TimeoutError, whose str() is empty).
Pending == [pending |-> TRUE]
ClientError == [client_error |-> "Cannot connect to host elaws.e-gov.go.jp:443"]
TimeoutError == [timeout_error |-> ""]
Answer(status, headers, body) == [status |-> status, headers |-> headers, body |-> body]
IsAnswer(h) == "status" \in DOMAIN h

EmptyObjectText == <<123, 125>>
MessageObjectText == <<123, 34, 109, 34, 58, 34, 120, 34, 125>>
\* json.loads on the bodies the model sends; every other body is not JSON.
json_loads(body) ==
  IF body = EmptyObjectText THEN Return(JObj(EmptyDict))
  ELSE IF body = MessageObjectText THEN Return(JObj([m |-> "x"]))
  ELSE Raise("Expecting value: line 1 column 1 (char 0)")

\* resp.json(): ContentTypeError unless the Content-Type is application/json,
\* None for an empty body, json.loads of the body otherwise.
resp_json(resp) ==
  IF Get(resp.headers, "Content-Type", "") # "application/json"
  THEN Raise("Attempt to decode JSON with unexpected mimetype")
  ELSE IF resp.body = <<>> THEN Return(JNull)
  ELSE json_loads(resp.body)

\* async with session.get(url, params=params) as resp: return await resp.json()
get_json(req, http) ==
  IF http = Pending THEN [req |-> <<req>>, out |-> Pending]
  ELSE IF IsAnswer(http) THEN [req |-> <<req>>, out |-> resp_json(http)]
  ELSE IF http = ClientError THEN [req |-> <<req>>, out |-> Raise(http.client_error)]
  ELSE [req |-> <<req>>, out |-> Raise(http.timeout_error)]

NoRequest(o) == [req |-> <<>>, out |-> o]
Request(path, params, read) == [url |-> BASE_URL \o path, params |-> params, read |-> read]

\* ---------------------------------------------------------------- base64
B64Alphabet ==
  <<"A","B","C","D","E","F","G","H","I","J","K","L","M","N","O","P",
    "Q","R","S","T","U","V","W","X","Y","Z","a","b","c","d","e","f",
    "g","h","i","j","k","l","m","n","o","p","q","r","s","t","u","v",
    "w","x","y","z","0","1","2","3","4","5","6","7","8","9","+","/">>

\* Mutant: the second sextet loses the high bits of the second byte.
RECURSIVE b64encode_lossy(_)
b64encode_lossy(raw) ==
  IF raw = <<>> THEN <<>>
  ELSE LET n == Len(raw)
           b0 == raw[1]
           b1 == IF n >= 2 THEN raw[2] ELSE 0
           b2 == IF n >= 3 THEN raw[3] ELSE 0
           c0 == b0 \div 4
           c1 == (b0 % 4) * 16
           c2 == (b1 % 16) * 4 + b2 \div 64
           c3 == b2 % 64
       IN <<B64Alphabet[c0 + 1], B64Alphabet[c1 + 1],
            IF n >= 2 THEN B64Alphabet[c2 + 1] ELSE "=",
            IF n >= 3 THEN B64Alphabet[c3 + 1] ELSE "=">>
          \o (IF n > 3 THEN b64encode_lossy(SubSeq(raw, 4, n)) ELSE <<>>)

\* base64.b64encode(raw).decode("utf-8"): the text as a sequence of characters.
RECURSIVE b64encode(_)
b64encode(raw) ==
  IF raw = <<>> THEN <<>>
  ELSE LET n == Len(raw)
           b0 == raw[1]
           b1 == IF n >= 2 THEN raw[2] ELSE 0
           b2 == IF n >= 3 THEN raw[3] ELSE 0
           c0 == b0 \div 4
           c1 == (b0 % 4) * 16 + b1 \div 16
           c2 == (b1 % 16) * 4 + b2 \div 64
           c3 == b2 % 64
       IN <<B64Alphabet[c0 + 1], B64Alphabet[c1 + 1],
            IF n >= 2 THEN B64Alphabet[c2 + 1] ELSE "=",
            IF n >= 3 THEN B64Alphabet[c3 + 1] ELSE "=">>
          \o (IF n > 3 THEN b64encode(SubSeq(raw, 4, n)) ELSE <<>>)

\* ------------------------------------------------- binding of **arguments
\* The TypeError Python raises when `f(**kwargs)` does not fit f's signature,
\* or None.  An unexpected keyword is reported before a missing argument.
signature_error(fname, required, optional, kwargs) ==
  LET unexpected == DOMAIN kwargs \ (required \cup optional)
      missing == required \ DOMAIN kwargs
  IN IF unexpected # {}
     THEN fname \o "() got an unexpected keyword argument '"
                \o (CHOOSE k \in unexpected : TRUE) \o "'"
     ELSE IF missing # {}
     THEN fname \o "() missing 1 required positional argument: '"
                \o (CHOOSE k \in missing : TRUE) \o "'"
     ELSE None

\* ------------------------------------------------------------ the handlers
\* Each handler is given its keyword arguments and what the HTTP exchange
\* delivers (Pending while the coroutine is suspended in session.get); it
\* yields the requests it has issued and its outcome.
\* The two fixed messages are Japanese text in the source; they are given
\* here by their English rendering.
MissingIdentifierMessage == "law_id, law_num, or law_revision_id must be specified."
MissingLawIdMessage == "law_id must be specified."

\* Mutant: list_laws takes search_laws' default limit.
list_laws_default_10(kwargs, http) ==
  LET err == signature_error("list_laws", {}, {"limit", "queryParameters"}, kwargs)
      limit == Get(kwargs, "limit", "10")
      queryParameters == Get(kwargs, "queryParameters", NoneQuery)
      params == Update([limit |-> limit], clean_query("list_laws", queryParameters))
  IN IF err # None THEN NoRequest(Raise(err))
     ELSE get_json(Request("/laws", params, "json"), http)

list_laws(kwargs, http) ==
  LET err == signature_error("list_laws", {}, {"limit", "queryParameters"}, kwargs)
      limit == Get(kwargs, "limit", "100")
      queryParameters == Get(kwargs, "queryParameters", NoneQuery)
      params == Update([limit |-> limit], clean_query("list_laws", queryParameters))
  IN IF err # None THEN NoRequest(Raise(err))
     ELSE get_json(Request("/laws", params, "json"), http)

search_laws(kwargs, http) ==
  LET err == signature_error("search_laws", {"keyword"}, {"limit", "queryParameters"}, kwargs)
      limit == Get(kwargs, "limit", "10")
      queryParameters == Get(kwargs, "queryParameters", NoneQuery)
      params == Update([keyword |-> kwargs["keyword"], limit |-> limit],
                       clean_query("search_laws", queryParameters))
  IN IF err # None THEN NoRequest(Raise(err))
     ELSE get_json(Request("/keyword", params, "json"), http)

get_law(kwargs, http) ==
  LET law_key == resolve_law_identifier(kwargs, TRUE)
  IN IF Falsy(law_key) THEN NoRequest(Return(JObj([error |-> MissingIdentifierMessage])))
     ELSE get_json(Request("/law_data/" \o law_key, EmptyDict, "json"), http)

\* Mutant: get_law_revisions resolves its identifier the way get_law does.
get_law_revisions_any_identifier(kwargs, http) ==
  LET law_key == resolve_law_identifier(kwargs, TRUE)
      queryParameters == Get(kwargs, "queryParameters", NoneQuery)
      params == Update(EmptyDict, clean_query("get_law_revisions", queryParameters))
  IN IF Falsy(law_key) THEN NoRequest(Return(JObj([error |-> MissingLawIdMessage])))
     ELSE get_json(Request("/law_revisions/" \o law_key, params, "json"), http)

get_law_revisions(kwargs, http) ==
  LET err == signature_error("get_law_revisions", {"law_id"}, {"queryParameters"}, kwargs)
      queryParameters == Get(kwargs, "queryParameters", NoneQuery)
      params == Update(EmptyDict, clean_query("get_law_revisions", queryParameters))
  IN IF err # None THEN NoRequest(Raise(err))
     ELSE IF Falsy(kwargs["law_id"])
     THEN NoRequest(Return(JObj([error |-> MissingLawIdMessage])))
     ELSE get_json(Request("/law_revisions/" \o kwargs["law_id"], params, "json"), http)

get_law_file(kwargs, http) ==
  LET law_key == resolve_law_identifier(kwargs, TRUE)
      req == Request("/law_file/json/" \o law_key, EmptyDict, "bytes")
  IN IF Falsy(law_key) THEN NoRequest(Return(JObj([error |-> MissingIdentifierMessage])))
     ELSE IF http = Pending THEN [req |-> <<req>>, out |-> Pending]
     ELSE IF IsAnswer(http)
     THEN [req |-> <<req>>,
           out |-> Return(JObj([filename |-> law_key \o ".json",
                                content_type |-> Get(http.headers, "Content-Type", "application/json"),
                                data_base64 |-> b64encode(http.body)]))]
     ELSE IF http = ClientError THEN [req |-> <<req>>, out |-> Raise(http.client_error)]
     ELSE [req |-> <<req>>, out |-> Raise(http.timeout_error)]

\* --------------------------------------------------------------- call_tool
\* The payload is the JSON document that json.dumps writes into the single
\* TextContent; `out` stays Pending while the handler is suspended.
call_tool(nm, args, http) ==
  LET h == IF nm = "list_laws" THEN list_laws(args, http)
           ELSE IF nm = "search_laws" THEN search_laws(args, http)
           ELSE IF nm = "get_law" THEN get_law(args, http)
           ELSE IF nm = "get_law_revisions" THEN get_law_revisions(args, http)
           ELSE IF nm = "get_law_file" THEN get_law_file(args, http)
           ELSE NoRequest(Return(JObj([error |-> "Unknown tool name: " \o nm])))
  IN [req |-> h.req,
      out |-> IF h.out = Pending THEN Pending
              ELSE IF IsRaise(h.out) THEN JObj([error |-> h.out.exc])
              ELSE h.out.ret]

\* ------------------------------------------------------------------ inputs
\* Tool names a client can send: the catalog plus one that is not in it.
Names == ToolNames \cup {"get_law_versions"}

\* Top-level scalar arguments and the values a client gives them.
ArgVals == [limit |-> {"5"},
            keyword |-> {"", "k"},
            law_revision_id |-> {"", "R1"},
            law_id |-> {"", "L1"},
            law_num |-> {"N1"},
            bogus_arg |-> {"z"}]

\* Keys of queryParameters: law_title is allowed for every tool with a
\* whitelist, asof for list_laws and search_laws only, bogus_key and limit
\* for none; a value may be null.
QueryVals == [law_title |-> {"x", None},
              asof |-> {"y", None},
              bogus_key |-> {"y"},
              limit |-> {"9"}]

Queries == PartialMaps(DOMAIN QueryVals, QueryVals)
Bags == PartialMaps(DOMAIN ArgVals, ArgVals)
         \cup {Put(b, "queryParameters", q) : b \in PartialMaps(DOMAIN ArgVals, ArgVals), q \in Queries}

IdBags == PartialMaps({"law_revision_id", "law_id", "law_num"}, ArgVals)

\* The calls delivered concurrently.
ConcCalls ==
  { <<"list_laws", [limit |-> "5", queryParameters |-> [law_title |-> "x", bogus_key |-> "y"]]>>,
    <<"search_laws", [keyword |-> "k", queryParameters |-> [limit |-> "9"]]>>,
    <<"get_law", [law_id |-> "L1", law_num |-> "N1"]>>,
    <<"get_law", EmptyDict>>,
    <<"get_law_revisions", [law_id |-> "L1", queryParameters |-> [law_title |-> "x", asof |-> "y"]]>>,
    <<"get_law_file", [law_revision_id |-> "R1"]>>,
    <<"get_law_versions", [law_id |-> "L1"]>> }

Bytes == {0, 123, 125, 255}
RECURSIVE ByteStrings(_)
ByteStrings(n) ==
  IF n = 0 THEN {<<>>}
  ELSE ByteStrings(n - 1) \cup {Append(b, x) : b \in {y \in ByteStrings(n - 1) : Len(y) = n - 1}, x \in Bytes}

HeaderSets == {EmptyDict, [x \in {"Content-Type"} |-> "application/json"],
               [x \in {"Content-Type"} |-> "text/html"]}

\* What the remote may answer to a JSON endpoint, and to the file endpoint.
JsonResponses ==
  {Answer(st, hd, bd) : st \in {200, 404}, hd \in HeaderSets,
                        bd \in {<<>>, EmptyObjectText, MessageObjectText, <<60>>}}
FileResponses ==
  {Answer(st, hd, bd) : st \in {200, 404}, hd \in HeaderSets, bd \in ByteStrings(MaxBytes)}
ConcResponses ==
  {Answer(200, [x \in {"Content-Type"} |-> "application/json"], EmptyObjectText),
   Answer(404, [x \in {"Content-Type"} |-> "text/html"], <<60>>)}

\* ------------------------------------------------------------------- state
\* allowed    the module-level dict ALLOWED_PARAMS
\* name, arguments   what the host passed to each call_tool invocation
\* pc         "Routing" before the handler ran, "Suspended" in session.get,
\*            "Completed" once call_tool has returned
\* requests   the GET requests the invocation has issued
\* response   what the HTTP exchange delivered (Pending before that)
\* payloads   the payloads call_tool has returned for the invocation
InitWith(Calls, n) ==
  /\ allowed = ALLOWED_PARAMS
  /\ \E c \in [1..n -> Calls] :
       /\ name = [i \in 1..n |-> c[i][1]]
       /\ arguments = [i \in 1..n |-> c[i][2]]
  /\ pc = [i \in 1..n |-> "Routing"]
  /\ requests = [i \in 1..n |-> <<>>]
  /\ response = [i \in 1..n |-> Pending]
  /\ payloads = [i \in 1..n |-> <<>>]

\* Mutant: the handler adds the caller's query keys to the shared allow-list.
Start_leaky(i) ==
  /\ pc[i] = "Routing"
  /\ LET r == call_tool(name[i], arguments[i], Pending)
         q == Get(arguments[i], "queryParameters", EmptyDict)
     IN /\ requests' = [requests EXCEPT ![i] = r.req]
        /\ allowed' = [nm \in DOMAIN allowed |->
                         IF nm = name[i] THEN allowed[nm] \cup DOMAIN q ELSE allowed[nm]]
        /\ IF r.out = Pending
           THEN pc' = [pc EXCEPT ![i] = "Suspended"] /\ payloads' = payloads
           ELSE /\ pc' = [pc EXCEPT ![i] = "Completed"]
                /\ payloads' = [payloads EXCEPT ![i] = Append(@, r.out)]
  /\ UNCHANGED <<name, arguments, response>>

\* The invocation runs up to its first suspension point, or to its return.
Start(i) ==
  /\ pc[i] = "Routing"
  /\ LET r == call_tool(name[i], arguments[i], Pending)
     IN /\ requests' = [requests EXCEPT ![i] = r.req]
        /\ IF r.out = Pending
           THEN pc' = [pc EXCEPT ![i] = "Suspended"] /\ payloads' = payloads
           ELSE /\ pc' = [pc EXCEPT ![i] = "Completed"]
                /\ payloads' = [payloads EXCEPT ![i] = Append(@, r.out)]
  /\ UNCHANGED <<allowed, name, arguments, response>>

\* The exchange delivers `http`; the handler resumes and call_tool returns.
Resume(i, http) ==
  /\ pc[i] = "Suspended"
  /\ response' = [response EXCEPT ![i] = http]
  /\ pc' = [pc EXCEPT ![i] = "Completed"]
  /\ payloads' = [payloads EXCEPT ![i] = Append(@, call_tool(name[i], arguments[i], http).out)]
  /\ UNCHANGED <<allowed, name, arguments, requests>>

RemoteAnswers(i, Resps) == \E resp \in Resps : Resume(i, resp)
\* Mutant: a failed connection is retried once before it is reported.
ConnectionFails_retry(i) ==
  /\ pc[i] = "Suspended"
  /\ IF Len(requests[i]) < 2
     THEN /\ requests' = [requests EXCEPT ![i] = Append(@, @[1])]
          /\ UNCHANGED <<pc, response, payloads>>
     ELSE /\ response' = [response EXCEPT ![i] = ClientError]
          /\ pc' = [pc EXCEPT ![i] = "Completed"]
          /\ payloads' = [payloads EXCEPT ![i] =
                            Append(@, call_tool(name[i], arguments[i], ClientError).out)]
          /\ UNCHANGED requests
  /\ UNCHANGED <<allowed, name, arguments>>
ConnectionFails(i) == Resume(i, ClientError)
TimesOut(i) == Resume(i, TimeoutError)

\* --------------------------------------------------------- specifications
\* One invocation, any tool name, any argument bag.
Init == InitWith(Names \X Bags, 1)
Next ==
  \E i \in DOMAIN pc :
    \/ Start(i)
    \/ RemoteAnswers(i, JsonResponses)
    \/ ConnectionFails(i)
    \/ TimesOut(i)
Spec == Init /\ [][Next]_vars

\* One get_law_file invocation, any identifier bag, any bytes from the remote.
InitFile == InitWith({"get_law_file"} \X IdBags, 1)
NextFile ==
  \E i \in DOMAIN pc :
    \/ Start(i)
    \/ RemoteAnswers(i, FileResponses)
    \/ ConnectionFails(i)
    \/ TimesOut(i)
SpecFile == InitFile /\ [][NextFile]_vars

\* NInv invocations delivered concurrently.  The event loop runs every ready
\* coroutine, and ClientSession's default total timeout ends every exchange
\* that has not ended otherwise.
InitConc == InitWith(ConcCalls, NInv)
NextConc ==
  \E i \in DOMAIN pc :
    \/ Start(i)
    \/ RemoteAnswers(i, ConcResponses)
    \/ ConnectionFails(i)
    \/ TimesOut(i)
FairSpec ==
  /\ InitConc /\ [][NextConc]_vars
  /\ \A i \in 1..NInv : WF_vars(Start(i)) /\ WF_vars(TimesOut(i))

\* ============================================================ properties
Completed(i) == pc[i] = "Completed"
Payload(i) == payloads[i][1]
HasError(p) == "obj" \in DOMAIN p /\ "error" \in DOMAIN p.obj
IdKeys == {"law_revision_id", "law_id", "law_num"}
\* The queryParameters the caller supplied (empty when it supplied none).
Supplied(i) == Get(arguments[i], "queryParameters", EmptyDict)
\* The entries of the caller's queryParameters that tool nm may forward.
Forwardable(nm, i) ==
  [k \in {x \in DOMAIN Supplied(i) : x \in ALLOWED_PARAMS[nm] /\ Supplied(i)[x] # None}
     |-> Supplied(i)[k]]

\* ------------------------------------------------------------------- C1
JsonReadFails(resp) ==
  \/ Get(resp.headers, "Content-Type", "") # "application/json"
  \/ resp.body \notin {<<>>, EmptyObjectText, MessageObjectText}
FailureMet(i) ==
  \/ name[i] \notin ToolNames
  \/ requests[i] = <<>>
  \/ response[i] = ClientError
  \/ response[i] = TimeoutError
  \/ IsAnswer(response[i]) /\ response[i].status >= 400
  \/ IsAnswer(response[i]) /\ name[i] # "get_law_file" /\ JsonReadFails(response[i])

\* C1: every invocation completes with exactly one payload, and whenever a
\* failure was met on the way (unknown tool, argument error, transport
\* error, remote 4xx/5xx status, decode error) that payload carries an
\* `error` key; for an unknown tool the message names the tool.
C1_FailuresBecomeErrorPayloads ==
  \A i \in DOMAIN pc :
    Completed(i) =>
      /\ Len(payloads[i]) = 1
      /\ FailureMet(i) => HasError(Payload(i))
      /\ name[i] \notin ToolNames =>
           Payload(i) = JObj([error |-> "Unknown tool name: " \o name[i]])

\* ------------------------------------------------------------------- C2
\* C2: a search_laws invocation whose keyword is missing or empty ends with
\* an error payload and issues no outbound request.
C2_EmptyKeywordNoRequest ==
  \A i \in DOMAIN pc :
    ( /\ name[i] = "search_laws"
      /\ pc[i] # "Routing"
      /\ Get(arguments[i], "keyword", "") = "" )
    => /\ requests[i] = <<>>
       /\ Completed(i)
       /\ HasError(Payload(i))

\* ------------------------------------------------------------------- C3
\* The parameters each handler sets itself, from its top-level arguments.
OwnParams(i) ==
  IF name[i] = "list_laws" THEN [limit |-> Get(arguments[i], "limit", "100")]
  ELSE IF name[i] = "search_laws"
  THEN [keyword |-> arguments[i]["keyword"], limit |-> Get(arguments[i], "limit", "10")]
  ELSE EmptyDict
\* The top-level arguments fit the handler, so that it reaches clean_query.
ReachesCleanQuery(i) ==
  \/ name[i] = "list_laws" /\ DOMAIN arguments[i] \subseteq {"limit", "queryParameters"}
  \/ /\ name[i] = "search_laws"
     /\ "keyword" \in DOMAIN arguments[i]
     /\ DOMAIN arguments[i] \subseteq {"keyword", "limit", "queryParameters"}
  \/ /\ name[i] = "get_law_revisions"
     /\ DOMAIN arguments[i] \subseteq {"law_id", "queryParameters"}
     /\ Get(arguments[i], "law_id", "") # ""

\* C3: in every outbound request, a query key that comes from the caller's
\* queryParameters is in the tool's ALLOWED_PARAMS, is non-null and keeps the
\* caller's value; other keys and null values are dropped without an error
\* (the request is still issued); clean_query is empty for an absent query
\* and for a tool name without an allow-set.
C3_WhitelistInvariant ==
  \A i \in DOMAIN pc :
    pc[i] # "Routing" =>
      /\ \A n \in 1..Len(requests[i]) :
           \A k \in DOMAIN requests[i][n].params :
             \/ k \in DOMAIN OwnParams(i) /\ requests[i][n].params[k] = OwnParams(i)[k]
             \/ /\ name[i] \in DOMAIN ALLOWED_PARAMS
                /\ k \in ALLOWED_PARAMS[name[i]]
                /\ k \in DOMAIN Supplied(i)
                /\ Supplied(i)[k] # None
                /\ requests[i][n].params[k] = Supplied(i)[k]
      /\ ReachesCleanQuery(i) =>
           /\ Len(requests[i]) = 1
           /\ DOMAIN Forwardable(name[i], i) \subseteq DOMAIN requests[i][1].params
      /\ clean_query(name[i], NoneQuery) = EmptyDict
      /\ \A nm \in Names \ DOMAIN ALLOWED_PARAMS : clean_query(nm, Supplied(i)) = EmptyDict

\* The spec's example: {law_title: "x", bogus_key: "y", asof: null} sent to
\* list_laws goes out as {limit: 100, law_title: "x"}.
C3_Witness ==
  \E i \in DOMAIN pc :
    /\ name[i] = "list_laws"
    /\ arguments[i] = [queryParameters |-> [law_title |-> "x", bogus_key |-> "y", asof |-> None]]
    /\ Len(requests[i]) = 1
    /\ requests[i][1].params = [limit |-> "100", law_title |-> "x"]

\* ------------------------------------------------------------------- C4
\* The value of the first identifier field present in the bag, in the order
\* law_revision_id, law_id, law_num.
FirstPresent(i) ==
  IF "law_revision_id" \in DOMAIN arguments[i] THEN arguments[i]["law_revision_id"]
  ELSE IF "law_id" \in DOMAIN arguments[i] THEN arguments[i]["law_id"]
  ELSE arguments[i]["law_num"]
IdentifierPath(i) ==
  IF name[i] = "get_law" THEN "/law_data/" ELSE "/law_file/json/"
IdentifierRequested(i) ==
  /\ Len(requests[i]) = 1
  /\ requests[i][1].url = BASE_URL \o IdentifierPath(i) \o FirstPresent(i)
  /\ requests[i][1].params = EmptyDict
IdentifierRefused(i) ==
  /\ requests[i] = <<>>
  /\ Completed(i)
  /\ Payload(i) = JObj([error |-> MissingIdentifierMessage])

\* C4 as stated: get_law and get_law_file request the first field present,
\* and refuse with the missing-identifier payload, issuing no request,
\* exactly when none of the three fields is in the bag.
C4_RefusedIffNoField ==
  \A i \in DOMAIN pc :
    (name[i] \in {"get_law", "get_law_file"} /\ pc[i] # "Routing") =>
      IF DOMAIN arguments[i] \cap IdKeys = {}
      THEN IdentifierRefused(i)
      ELSE IdentifierRequested(i)

\* C4 amended: get_law and get_law_file request the first field present,
\* and refuse with the missing-identifier payload, issuing no request,
\* exactly when none of the three fields is in the bag or the first field
\* present holds an empty value.
C4_RefusedIffNoUsableField ==
  \A i \in DOMAIN pc :
    (name[i] \in {"get_law", "get_law_file"} /\ pc[i] # "Routing") =>
      IF DOMAIN arguments[i] \cap IdKeys = {} \/ FirstPresent(i) = ""
      THEN IdentifierRefused(i)
      ELSE IdentifierRequested(i)

\* {law_revision_id: R1, law_id: L1} goes out as /law_data/R1.
C4_Witness ==
  \E i \in DOMAIN pc :
    /\ name[i] = "get_law"
    /\ arguments[i] = [law_revision_id |-> "R1", law_id |-> "L1"]
    /\ Len(requests[i]) = 1
    /\ requests[i][1].url = BASE_URL \o "/law_data/R1"

\* ------------------------------------------------------------------- C5
\* C5: get_law_revisions issues a request only when law_id is supplied, to
\* /law_revisions/{law_id} with the whitelist-filtered query, and never with
\* a law_revision_id or law_num as identifier; without law_id it ends with
\* an error payload and no request.  resolve_law_identifier with
\* allow_revision_id=false resolves nothing from a bag whose only identifier
\* is law_revision_id.
C5_RevisionsNeedLawId ==
  \A i \in DOMAIN pc :
    /\ (name[i] = "get_law_revisions" /\ pc[i] # "Routing") =>
         /\ requests[i] # <<>> =>
              /\ "law_id" \in DOMAIN arguments[i]
              /\ Len(requests[i]) = 1
              /\ requests[i][1].url = BASE_URL \o "/law_revisions/" \o arguments[i]["law_id"]
              /\ requests[i][1].params = Forwardable("get_law_revisions", i)
         /\ "law_id" \notin DOMAIN arguments[i] =>
              /\ requests[i] = <<>>
              /\ Completed(i)
              /\ HasError(Payload(i))
    /\ (pc[i] # "Routing" /\ DOMAIN arguments[i] \cap IdKeys = {"law_revision_id"}) =>
         resolve_law_identifier(arguments[i], FALSE) = None

\* A bag holding only law_revision_id ends in an error payload, no request.
C5_Witness ==
  \E i \in DOMAIN pc :
    /\ name[i] = "get_law_revisions"
    /\ arguments[i] = [law_revision_id |-> "R1"]
    /\ Completed(i)
    /\ requests[i] = <<>>
    /\ HasError(Payload(i))

\* ------------------------------------------------------------------- C6
\* The arguments each tool's inputSchema declares.
DeclaredArguments(nm) ==
  IF nm = "list_laws" THEN {"limit", "queryParameters"}
  ELSE IF nm = "search_laws" THEN {"keyword", "limit", "queryParameters"}
  ELSE IF nm = "get_law_revisions" THEN {"law_id", "queryParameters"}
  ELSE IdKeys
DeclaredQueryKeys(nm) ==
  IF nm \in DOMAIN ALLOWED_PARAMS THEN ALLOWED_PARAMS[nm] ELSE {}
ViolatesSchema(i) ==
  \/ ~(DOMAIN arguments[i] \subseteq DeclaredArguments(name[i]))
  \/ ~(DOMAIN Supplied(i) \subseteq DeclaredQueryKeys(name[i]))
\* The fields the tool cannot work without are there.
RequiredSupplied(i) ==
  IF name[i] = "search_laws" THEN "keyword" \in DOMAIN arguments[i]
  ELSE IF name[i] = "get_law_revisions" THEN Get(arguments[i], "law_id", "") # ""
  ELSE IF name[i] = "list_laws" THEN TRUE
  ELSE DOMAIN arguments[i] \cap IdKeys # {} /\ FirstPresent(i) # ""

\* C6: a call to a known tool that violates the tool's inputSchema (an
\* undeclared top-level argument, an undeclared key inside queryParameters)
\* but supplies the required fields is not rejected: the request is issued.
C6_ContractAdvisory ==
  \A i \in DOMAIN pc :
    ( /\ name[i] \in ToolNames
      /\ pc[i] # "Routing"
      /\ RequiredSupplied(i)
      /\ ViolatesSchema(i) )
    => Len(requests[i]) = 1

\* ------------------------------------------------------------------- C7
\* The JSON document each JSON text of the model denotes.
DocumentOf(body) ==
  IF body = EmptyObjectText THEN [obj |-> EmptyDict] ELSE [obj |-> [m |-> "x"]]

\* C7: a list_laws invocation with arguments (limit, queryParameters) issues
\* one request, to /laws, whose query is {limit: the caller's limit or 100}
\* united with the whitelist-filtered queryParameters; when the remote
\* answers with a JSON body the payload is that body.
C7_ListLawsRequest ==
  \A i \in DOMAIN pc :
    ( /\ name[i] = "list_laws"
      /\ DOMAIN arguments[i] \subseteq {"limit", "queryParameters"}
      /\ pc[i] # "Routing" )
    => /\ Len(requests[i]) = 1
       /\ requests[i][1].url = BASE_URL \o "/laws"
       /\ DOMAIN requests[i][1].params = {"limit"} \cup DOMAIN Forwardable("list_laws", i)
       /\ requests[i][1].params["limit"] =
            (IF "limit" \in DOMAIN arguments[i] THEN arguments[i]["limit"] ELSE "100")
       /\ \A k \in DOMAIN Forwardable("list_laws", i) :
            requests[i][1].params[k] = Supplied(i)[k]
       /\ ( /\ Completed(i)
            /\ IsAnswer(response[i])
            /\ Get(response[i].headers, "Content-Type", "") = "application/json"
            /\ response[i].body \in {EmptyObjectText, MessageObjectText} )
          => Payload(i) = DocumentOf(response[i].body)

\* The spec's scenario: limit 5 and a law_title go out as {limit, law_title}
\* and the remote's JSON body comes back as the payload.
C7_Witness ==
  \E i \in DOMAIN pc :
    /\ name[i] = "list_laws"
    /\ arguments[i] = [limit |-> "5", queryParameters |-> [law_title |-> "x"]]
    /\ requests[i] = <<Request("/laws", [limit |-> "5", law_title |-> "x"], "json")>>
    /\ Completed(i)
    /\ response[i].body = MessageObjectText
    /\ Payload(i) = [obj |-> [m |-> "x"]]

\* ------------------------------------------------------------------- C8
B64Index(c) == CHOOSE n \in 0..63 : B64Alphabet[n + 1] = c
\* base64 decoding of a padded text.
RECURSIVE b64decode(_)
b64decode(text) ==
  IF Len(text) < 4 THEN <<>>
  ELSE LET i0 == B64Index(text[1])
           i1 == B64Index(text[2])
           i2 == IF text[3] = "=" THEN 0 ELSE B64Index(text[3])
           i3 == IF text[4] = "=" THEN 0 ELSE B64Index(text[4])
           b0 == i0 * 4 + i1 \div 16
           b1 == (i1 % 16) * 16 + i2 \div 4
           b2 == (i2 % 4) * 64 + i3
       IN (IF text[3] = "=" THEN <<b0>>
           ELSE IF text[4] = "=" THEN <<b0, b1>>
           ELSE <<b0, b1, b2>>)
          \o b64decode(SubSeq(text, 5, Len(text)))

\* C8: whatever bytes the remote returns for a resolved identifier, the
\* get_law_file payload is {filename, content_type, data_base64}; decoding
\* data_base64 gives back exactly those bytes, content_type is the
\* response's Content-Type header, filename is the identifier with ".json";
\* the body is not parsed as JSON (a body that is no JSON text gives the
\* same shape of payload).
C8_FileRoundTrip ==
  \A i \in DOMAIN pc :
    (name[i] = "get_law_file" /\ Completed(i) /\ IsAnswer(response[i])) =>
      /\ DOMAIN Payload(i) = {"obj"}
      /\ DOMAIN Payload(i).obj = {"filename", "content_type", "data_base64"}
      /\ b64decode(Payload(i).obj["data_base64"]) = response[i].body
      /\ Len(Payload(i).obj["data_base64"]) = 4 * ((Len(response[i].body) + 2) \div 3)
      /\ "Content-Type" \in DOMAIN response[i].headers =>
           Payload(i).obj["content_type"] = response[i].headers["Content-Type"]
      /\ Payload(i).obj["filename"] = FirstPresent(i) \o ".json"

\* The spec's example: the bytes 7B 7D with Content-Type application/json
\* come back as "e30=".
C8_Witness ==
  \E i \in DOMAIN pc :
    /\ name[i] = "get_law_file"
    /\ arguments[i] = [law_id |-> "L1"]
    /\ Completed(i)
    /\ response[i] = Answer(200, [x \in {"Content-Type"} |-> "application/json"], <<123, 125>>)
    /\ Payload(i) = JObj([filename |-> "L1.json", content_type |-> "application/json",
                          data_base64 |-> <<"e", "3", "0", "=">>])

\* ------------------------------------------------------------------- C9
SingleAttempt(i) ==
  /\ Len(requests[i]) <= 1
  /\ Len(payloads[i]) = (IF Completed(i) THEN 1 ELSE 0)
  /\ pc[i] = "Suspended" => Len(requests[i]) = 1 /\ response[i] = Pending
  /\ response[i] \in {ClientError, TimeoutError} =>
       /\ Completed(i)
       /\ HasError(Payload(i))

\* C9: every invocation issues at most one request and returns exactly one
\* payload when it completes; a transport failure or a timeout gives an
\* error payload and no second request; every suspended invocation
\* eventually completes, the timeout bounding the exchange.
C9_SingleAttemptCompletes ==
  /\ [](\A i \in 1..NInv : SingleAttempt(i))
  /\ \A i \in 1..NInv : (pc[i] = "Routing") ~> Completed(i)
  /\ \A i \in 1..NInv : (pc[i] = "Suspended") ~> Completed(i)

\* An invocation whose exchange timed out: one request, one error payload.
C9_Witness ==
  \E i \in DOMAIN pc :
    /\ response[i] = TimeoutError
    /\ Completed(i)
    /\ Len(requests[i]) = 1
    /\ payloads[i] = <<JObj([error |-> ""])>>

\* ------------------------------------------------------------------ C10
\* C10: ALLOWED_PARAMS is never modified; two invocations with the same
\* name and arguments issue the same request, and with the same answer
\* return the same payload, whatever the other invocations do; an
\* invocation that is ready to run or to resume can always do so, whatever
\* invocations are suspended.
C10_Independent ==
  /\ allowed = ALLOWED_PARAMS
  /\ \A i \in DOMAIN pc :
       /\ pc[i] = "Routing" => ENABLED Start(i)
       /\ pc[i] = "Suspended" =>
            /\ ENABLED RemoteAnswers(i, ConcResponses)
            /\ ENABLED ConnectionFails(i)
            /\ ENABLED TimesOut(i)
       /\ \A j \in DOMAIN pc :
            (name[i] = name[j] /\ arguments[i] = arguments[j]) =>
              /\ (pc[i] # "Routing" /\ pc[j] # "Routing") => requests[i] = requests[j]
              /\ (Completed(i) /\ Completed(j) /\ response[i] = response[j]) =>
                   payloads[i] = payloads[j]

\* Invocation 2 has completed with the answer to its own request while
\* invocation 1, which makes another call, is still suspended.
C10_Witness ==
  /\ pc[1] = "Suspended"
  /\ Completed(2)
  /\ IsAnswer(response[2])
  /\ name[1] # name[2]
  /\ Len(requests[2]) = 1

====
